---- MODULE Spec2Model ----
(***************************************************************************)
(* avia-search-bot: the query parser (search_flights_text.parse_query),    *)
(* the month normaliser, the place resolver, the search orchestrator       *)
(* (search_flights) and the message handler (bot.handle_query).            *)
(*                                                                         *)
(* Text.  A character is a short string: a Cyrillic letter is written by   *)
(* its transliteration ("m", "ya", upper case "M", "YA"), a digit by       *)
(* itself, and "-", "ndash", "mdash", "nbhyphen", "arrow", "," stand for   *)
(* the punctuation the code handles.  A word is a sequence of characters,  *)
(* a message a sequence of words: the text of the message is its words     *)
(* joined by single spaces.  The regular expressions of the source are     *)
(* matched word by word; every word of a preprocessed message consists of  *)
(* characters of [\w\-].                                                   *)
(*                                                                         *)
(* Dates.  A date, and its ISO string, is the triple <<year, month, day>>; *)
(* a "YYYY-MM" month is the pair <<year, month>>.  An absent dict key is   *)
(* the empty sequence.                                                     *)
(***************************************************************************)
EXTENDS Integers, Sequences, FiniteSets, TLC

\* ------------------------------------------------------------- characters

LowerAlphabet ==
    << "a", "b", "v", "g", "d", "e", "zh", "z", "i", "j", "k", "l", "m", "n",
       "o", "p", "r", "s", "t", "u", "f", "h", "c", "ch", "sh", "shch",
       "hard", "y", "soft", "eh", "yu", "ya" >>

UpperAlphabet ==
    << "A", "B", "V", "G", "D", "E", "ZH", "Z", "I", "J", "K", "L", "M", "N",
       "O", "P", "R", "S", "T", "U", "F", "H", "C", "CH", "SH", "SHCH",
       "HARD", "Y", "SOFT", "EH", "YU", "YA" >>

Digits == << "0", "1", "2", "3", "4", "5", "6", "7", "8", "9" >>

Range(s) == { s[i] : i \in DOMAIN s }

IndexIn(c, alphabet) == CHOOSE i \in DOMAIN alphabet : alphabet[i] = c

\* str.lower() of one character
CharLower(c) ==
    IF c \in Range(UpperAlphabet) THEN LowerAlphabet[IndexIn(c, UpperAlphabet)]
    ELSE c

\* str.upper() of one character
CharUpper(c) ==
    IF c \in Range(LowerAlphabet) THEN UpperAlphabet[IndexIn(c, LowerAlphabet)]
    ELSE c

\* str.lower()
Lower(w) == [ i \in DOMAIN w |-> CharLower(w[i]) ]

\* str.capitalize(): first character upper case, the rest lower case
Capitalize(w) == [ i \in DOMAIN w |-> IF i = 1 THEN CharUpper(w[i]) ELSE CharLower(w[i]) ]

\* the code point order of two characters (upper case before lower case,
\* each in alphabet order; digits and punctuation before both)
CodePoint(c) ==
    IF c \in Range(UpperAlphabet) THEN 100 + IndexIn(c, UpperAlphabet)
    ELSE IF c \in Range(LowerAlphabet) THEN 200 + IndexIn(c, LowerAlphabet)
    ELSE IF c \in Range(Digits) THEN 10 + IndexIn(c, Digits)
    ELSE 0

\* Python's str comparison a < b
RECURSIVE StrLess(_, _)
StrLess(a, b) ==
    IF b = << >> THEN FALSE
    ELSE IF a = << >> THEN TRUE
    ELSE IF CodePoint(a[1]) # CodePoint(b[1]) THEN CodePoint(a[1]) < CodePoint(b[1])
    ELSE StrLess(Tail(a), Tail(b))

\* \w of the regular expressions: a letter or a digit
IsWordChar(c) ==
    c \in Range(LowerAlphabet) \cup Range(UpperAlphabet) \cup Range(Digits)

IsDigit(c) == c \in Range(Digits)

\* int() of a string of digits
RECURSIVE DigitsToInt(_)
DigitsToInt(w) ==
    IF w = << >> THEN 0
    ELSE 10 * DigitsToInt(SubSeq(w, 1, Len(w) - 1)) + (IndexIn(w[Len(w)], Digits) - 1)

\* ---------------------------------------------------------------- difflib

\* the length of the common run of a[i..ahi] and b[j..bhi]
RECURSIVE MatchRun(_, _, _, _, _, _)
MatchRun(a, b, i, j, ahi, bhi) ==
    IF i > ahi \/ j > bhi THEN 0
    ELSE IF a[i] # b[j] THEN 0
    ELSE 1 + MatchRun(a, b, i + 1, j + 1, ahi, bhi)

\* of the blocks whose lengths `runs` gives by their start <<i, j>>: the longest;
\* of those the one starting earliest in a, and of those the one starting
\* earliest in b
BestBlock(runs) ==
    CHOOSE p \in DOMAIN runs :
        \A q \in DOMAIN runs :
            \/ runs[p] > runs[q]
            \/ /\ runs[p] = runs[q]
               /\ \/ p[1] < q[1]
                  \/ p[1] = q[1] /\ p[2] <= q[2]

LongestOf(runs, best) == [ i |-> best[1], j |-> best[2], k |-> runs[best] ]

LongestIn(runs) == LongestOf(runs, BestBlock(runs))

\* SequenceMatcher.find_longest_match: the longest matching block of
\* a[alo..ahi] and b[blo..bhi]
FindLongestMatch(a, b, alo, ahi, blo, bhi) ==
    LongestIn([ p \in (alo .. ahi) \X (blo .. bhi) |-> MatchRun(a, b, p[1], p[2], ahi, bhi) ])

\* the total size of SequenceMatcher.get_matching_blocks: the longest block,
\* then the same to its left and to its right
RECURSIVE Matches(_, _, _, _, _, _)
RECURSIVE MatchesAround(_, _, _, _, _, _, _)
MatchesAround(a, b, alo, ahi, blo, bhi, m) ==
    IF m.k = 0 THEN 0
    ELSE m.k + Matches(a, b, alo, m.i - 1, blo, m.j - 1)
             + Matches(a, b, m.i + m.k, ahi, m.j + m.k, bhi)

Matches(a, b, alo, ahi, blo, bhi) ==
    IF alo > ahi \/ blo > bhi THEN 0
    ELSE MatchesAround(a, b, alo, ahi, blo, bhi, FindLongestMatch(a, b, alo, ahi, blo, bhi))

\* SequenceMatcher(None, a, b).ratio() = 2.0 * M / T as the fraction
\* <<numerator, denominator>>; 1.0 when both are empty
Ratio(a, b) ==
    IF Len(a) + Len(b) = 0 THEN << 1, 1 >>
    ELSE << 2 * Matches(a, b, 1, Len(a), 1, Len(b)), Len(a) + Len(b) >>

\* comparisons of two ratios
RatioLess(r, s) == r[1] * s[2] < s[1] * r[2]
RatioEq(r, s) == r[1] * s[2] = s[1] * r[2]

\* ----------------------------------------------------------------- months

\* MONTHS: the nominative month names; a name's number is its index
MONTHS ==
    << << "ya", "n", "v", "a", "r", "soft" >>,
       << "f", "e", "v", "r", "a", "l", "soft" >>,
       << "m", "a", "r", "t" >>,
       << "a", "p", "r", "e", "l", "soft" >>,
       << "m", "a", "j" >>,
       << "i", "yu", "n", "soft" >>,
       << "i", "yu", "l", "soft" >>,
       << "a", "v", "g", "u", "s", "t" >>,
       << "s", "e", "n", "t", "ya", "b", "r", "soft" >>,
       << "o", "k", "t", "ya", "b", "r", "soft" >>,
       << "n", "o", "ya", "b", "r", "soft" >>,
       << "d", "e", "k", "a", "b", "r", "soft" >> >>

\* MONTH_ALIASES: the genitive forms; the form at index i is an alias of MONTHS[i]
MONTH_ALIASES ==
    << << "ya", "n", "v", "a", "r", "ya" >>,
       << "f", "e", "v", "r", "a", "l", "ya" >>,
       << "m", "a", "r", "t", "a" >>,
       << "a", "p", "r", "e", "l", "ya" >>,
       << "m", "a", "ya" >>,
       << "i", "yu", "n", "ya" >>,
       << "i", "yu", "l", "ya" >>,
       << "a", "v", "g", "u", "s", "t", "a" >>,
       << "s", "e", "n", "t", "ya", "b", "r", "ya" >>,
       << "o", "k", "t", "ya", "b", "r", "ya" >>,
       << "n", "o", "ya", "b", "r", "ya" >>,
       << "d", "e", "k", "a", "b", "r", "ya" >> >>

\* the keys of MONTH_MAP
MONTH_MAP_KEYS == Range(MONTHS) \cup Range(MONTH_ALIASES)

\* MONTH_MAP[key]
MONTH_MAP(key) ==
    IF key \in Range(MONTHS) THEN IndexIn(key, MONTHS) ELSE IndexIn(key, MONTH_ALIASES)

\* the cutoff of get_close_matches, 0.4, as a fraction
CutoffNum == 4
CutoffDen == 10

\* difflib.get_close_matches(word, MONTH_MAP.keys(), n=1, cutoff=0.4), given
\* score[x] = SequenceMatcher(a=x, b=word).ratio() of every key x: the keys
\* whose score is at least the cutoff
CloseMatches(score) ==
    { x \in DOMAIN score : ~ RatioLess(score[x], << CutoffNum, CutoffDen >>) }

\* heapq.nlargest(1, ...) of the pairs (score, key)
Largest(score, c) ==
    CHOOSE x \in c :
        \A y \in c :
            \/ RatioLess(score[y], score[x])
            \/ /\ RatioEq(score[y], score[x])
               /\ (y = x \/ StrLess(y, x))

\* lines 82-88: the month of the closest key, or 0 for the ValueError
ClosestMonth(score) ==
    IF CloseMatches(score) = {} THEN 0
    ELSE MONTH_MAP(Largest(score, CloseMatches(score)))

\* lines 79-81
MonthOfKey(key) ==
    IF key \in MONTH_MAP_KEYS THEN MONTH_MAP(key)
    ELSE ClosestMonth([ x \in MONTH_MAP_KEYS |-> Ratio(x, key) ])

\* normalize_month(name): the month number, or 0 for its ValueError
normalize_month(name) == MonthOfKey(Lower(name))

\* --------------------------------------------------------------- calendar

IsLeap(y) == (y % 4 = 0) /\ ((y % 100 # 0) \/ (y % 400 = 0))

\* calendar.monthrange(year, month)[1]
DaysInMonth(y, m) ==
    IF m = 2 THEN (IF IsLeap(y) THEN 29 ELSE 28)
    ELSE IF m \in {4, 6, 9, 11} THEN 30
    ELSE 31

\* whether date(y, m, d) constructs (it raises ValueError otherwise)
ValidDate(y, m, d) == m \in 1 .. 12 /\ d >= 1 /\ d <= DaysInMonth(y, m)

\* days of the months of year y before month m
RECURSIVE DaysBeforeMonth(_, _)
DaysBeforeMonth(y, m) ==
    IF m <= 1 THEN 0 ELSE DaysBeforeMonth(y, m - 1) + DaysInMonth(y, m - 1)

\* date.toordinal(): the number of the day, 0001-01-01 being day 1
ToOrdinal(dt) ==
    LET y == dt[1] - 1
    IN  y * 365 + (y \div 4) - (y \div 100) + (y \div 400)
        + DaysBeforeMonth(dt[1], dt[2]) + dt[3]

\* (b - a).days
DaysBetween(a, b) == ToOrdinal(b) - ToOrdinal(a)

\* d + timedelta(days=1)
NextDay(dt) ==
    IF dt[3] < DaysInMonth(dt[1], dt[2]) THEN << dt[1], dt[2], dt[3] + 1 >>
    ELSE IF dt[2] < 12 THEN << dt[1], dt[2] + 1, 1 >>
    ELSE << dt[1] + 1, 1, 1 >>

\* d + timedelta(days=n), n >= 0
RECURSIVE AddDays(_, _)
AddDays(dt, n) == IF n <= 0 THEN dt ELSE AddDays(NextDay(dt), n - 1)

\* a < b on dates (and on ISO date strings)
DateLess(a, b) ==
    \/ a[1] < b[1]
    \/ a[1] = b[1] /\ a[2] < b[2]
    \/ a[1] = b[1] /\ a[2] = b[2] /\ a[3] < b[3]

\* ---------------------------------------------------------- preprocessing

\* parse_query, lines 117-119: an arrow becomes a space (it ends a word), every
\* dash variant becomes a plain hyphen
NormalizeDash(c) == IF c \in {"ndash", "mdash", "nbhyphen"} THEN "-" ELSE c

RECURSIVE SplitArrows(_, _)
SplitArrows(w, cur) ==
    IF w = << >> THEN (IF cur = << >> THEN << >> ELSE << cur >>)
    ELSE IF w[1] = "arrow"
         THEN (IF cur = << >> THEN << >> ELSE << cur >>) \o SplitArrows(Tail(w), << >>)
         ELSE SplitArrows(Tail(w), Append(cur, NormalizeDash(w[1])))

RECURSIVE CleanWords(_)
CleanWords(msg) ==
    IF msg = << >> THEN << >>
    ELSE SplitArrows(msg[1], << >>) \o CleanWords(Tail(msg))

\* [\w\-] of the patterns
IsCityChar(c) == IsWordChar(c) \/ c = "-"

\* the number of leading [\w\-] characters of w
RECURSIVE CityPrefixLen(_)
CityPrefixLen(w) ==
    IF w = << >> THEN 0
    ELSE IF IsCityChar(w[1]) THEN 1 + CityPrefixLen(Tail(w))
    ELSE 0

\* parse_query, line 120: re.sub(r'^([\w\-]+)\s*-\s*([\w\-]+)', r'\1 \2', msg).
\* Group 1 is greedy: first all the leading [\w\-] of the first word; when
\* that is the whole word, the hyphen may open the next word, with group 2
\* after it or, the hyphen standing alone, in the word after.
HyphenNext(T) ==
    /\ CityPrefixLen(T[1]) = Len(T[1])
    /\ Len(T) >= 2
    /\ T[2][1] = "-"
    /\ IF Len(T[2]) > 1 THEN IsCityChar(T[2][2])
       ELSE Len(T) >= 3 /\ IsCityChar(T[3][1])

\* failing that, group 1 gives characters back: it ends before a hyphen of
\* the first word that has group 2 after it, in the word or in the next word
HeadCuts(T) ==
    { L \in 1 .. CityPrefixLen(T[1]) - 1 :
        /\ T[1][L + 1] = "-"
        /\ \/ L + 1 < CityPrefixLen(T[1])
           \/ /\ L + 1 = Len(T[1])
              /\ Len(T) >= 2
              /\ IsCityChar(T[2][1]) }

MaxOf(S) == CHOOSE x \in S : \A y \in S : y <= x

HeadCutAt(T, L) ==
    IF L + 1 < Len(T[1])
    THEN << SubSeq(T[1], 1, L), SubSeq(T[1], L + 2, Len(T[1])) >> \o Tail(T)
    ELSE << SubSeq(T[1], 1, L) >> \o Tail(T)

HeadRewrite(T) ==
    IF T = << >> THEN T
    ELSE IF HyphenNext(T)
    THEN (IF Len(T[2]) > 1 THEN << T[1], Tail(T[2]) >> ELSE << T[1] >>)
         \o SubSeq(T, 3, Len(T))
    ELSE IF HeadCuts(T) = {} THEN T
    ELSE HeadCutAt(T, MaxOf(HeadCuts(T)))

\* line 117 turns a leading arrow into a space, and the pattern of line 120,
\* anchored at the start, then finds nothing
LeadingSpace(msg) == msg # << >> /\ msg[1][1] = "arrow"

\* parse_query, lines 117-121
Preprocess(msg) ==
    IF LeadingSpace(msg) THEN CleanWords(msg) ELSE HeadRewrite(CleanWords(msg))



\* ----------------------------------------------------------- the patterns

KwS     == << "s" >>
KwPo    == << "p", "o" >>
KwNa    == << "n", "a" >>
KwPryam == << "p", "r", "ya", "m" >>
KwDn    == << "d", "n" >>

HasPrefix(w, p) == Len(w) >= Len(p) /\ SubSeq(w, 1, Len(p)) = p

\* the word is the keyword, whatever its case (re.IGNORECASE)
IsKw(w, kw) == Lower(w) = kw

\* the number of leading characters of w that satisfy Test
RECURSIVE PrefixLen(_, _)
PrefixLen(w, digitsOnly) ==
    IF w = << >> THEN 0
    ELSE IF (IF digitsOnly THEN IsDigit(w[1]) ELSE IsWordChar(w[1]))
         THEN 1 + PrefixLen(Tail(w), digitsOnly)
         ELSE 0

\* \w+ against a whole word
AllWord(w) == Len(w) >= 1 /\ PrefixLen(w, FALSE) = Len(w)

\* \d{1,2} against a whole word
IsDay(w) == Len(w) \in {1, 2} /\ PrefixLen(w, TRUE) = Len(w)

\* the word after its leading digits and the character that follows them
AfterMin(w) == SubSeq(w, PrefixLen(w, TRUE) + 2, Len(w))

\* (?P<min>\d+)[-](?P<max>\d+) at the start of a word
IsDayRange(w) ==
    /\ PrefixLen(w, TRUE) >= 1
    /\ Len(w) >= PrefixLen(w, TRUE) + 2
    /\ w[PrefixLen(w, TRUE) + 1] = "-"
    /\ PrefixLen(AfterMin(w), TRUE) >= 1

RangeMin(w) == DigitsToInt(SubSeq(w, 1, PrefixLen(w, TRUE)))
RangeMax(w) == DigitsToInt(SubSeq(AfterMin(w), 1, PrefixLen(AfterMin(w), TRUE)))

\* what the word holds after the range
RangeRest(w) == SubSeq(AfterMin(w), PrefixLen(AfterMin(w), TRUE) + 1, Len(AfterMin(w)))

\* \s*dn\w* after the range of the word at r: in the word itself, or, the
\* range ending the word, at the start of the next word
DayWordAfter(T, r) ==
    IF RangeRest(T[r]) = << >>
    THEN r + 1 <= Len(T) /\ HasPrefix(Lower(T[r + 1]), KwDn)
    ELSE HasPrefix(Lower(RangeRest(T[r])), KwDn)

\* the optional group (?:\s+(?P<direct>prjam\w*))? after the word at i, which
\* the pattern has consumed to its end iff whole
DirectAfter(T, i, whole) == whole /\ i + 1 <= Len(T) /\ HasPrefix(Lower(T[i + 1]), KwPryam)

\* the group <direct> of DURATION_PATTERN, the range in the word at r
DurationDirect(T, r) ==
    IF RangeRest(T[r]) = << >>
    THEN DirectAfter(T, r + 1, AllWord(T[r + 1]))
    ELSE DirectAfter(T, r, AllWord(RangeRest(T[r])))

\* CITY with <from> in the word at p: <from> ends the word, <to> is the
\* whole next word
CityAt(T, p) ==
    /\ p + 1 <= Len(T)
    /\ IsCityChar(T[p][Len(T[p])])
    /\ CityPrefixLen(T[p + 1]) = Len(T[p + 1])

\* the group <from>: the [\w\-] characters that end the word
RECURSIVE From(_)
From(w) ==
    IF CityPrefixLen(w) = Len(w) THEN w ELSE From(Tail(w))

\* FULL_MONTH_RANGE with <from> at word p
FullMonthAt(T, p) ==
    /\ p + 7 <= Len(T)
    /\ CityAt(T, p)
    /\ IsKw(T[p + 2], KwS)
    /\ IsDay(T[p + 3])
    /\ AllWord(T[p + 4])
    /\ IsKw(T[p + 5], KwPo)
    /\ IsDay(T[p + 6])
    /\ PrefixLen(T[p + 7], FALSE) >= 1

\* RANGE_PATTERN with <from> at word p
RangeAt(T, p) ==
    /\ p + 6 <= Len(T)
    /\ CityAt(T, p)
    /\ IsKw(T[p + 2], KwS)
    /\ IsDay(T[p + 3])
    /\ IsKw(T[p + 4], KwPo)
    /\ IsDay(T[p + 5])
    /\ PrefixLen(T[p + 6], FALSE) >= 1

\* NO_MONTH_RANGE with <from> at word p
NoMonthAt(T, p) ==
    /\ p + 5 <= Len(T)
    /\ CityAt(T, p)
    /\ IsKw(T[p + 2], KwS)
    /\ IsDay(T[p + 3])
    /\ IsKw(T[p + 4], KwPo)
    /\ PrefixLen(T[p + 5], TRUE) >= 1

\* DURATION_PATTERN with <from> at word p and a month word
DurationMonthAt(T, p) ==
    /\ p + 4 <= Len(T)
    /\ CityAt(T, p)
    /\ IsKw(T[p + 2], KwNa)
    /\ AllWord(T[p + 3])
    /\ IsDayRange(T[p + 4])
    /\ DayWordAfter(T, p + 4)

\* DURATION_PATTERN with <from> at word p and no month word
DurationBareAt(T, p) ==
    /\ p + 3 <= Len(T)
    /\ CityAt(T, p)
    /\ IsKw(T[p + 2], KwNa)
    /\ IsDayRange(T[p + 3])
    /\ DayWordAfter(T, p + 3)

\* re.search: the leftmost match, 0 when there is none
Leftmost(S) == IF S = {} THEN 0 ELSE CHOOSE p \in S : \A q \in S : p <= q

DurationAt(T, p) == DurationMonthAt(T, p) \/ DurationBareAt(T, p)

\* ------------------------------------------------------------ parse_query

NoDate == << >>

\* the ValueError of parse_query, of normalize_month or of date()
ParseError(why) ==
    [ ok |-> FALSE, err |-> why, origin_city |-> << >>, destination_city |-> << >>,
      depart_date |-> NoDate, return_date |-> NoDate, depart_month |-> NoDate,
      min_days |-> -1, max_days |-> -1, direct |-> FALSE ]

\* the dict of an exact range
DatesIntent(frm, to, dep, ret, direct) ==
    [ ok |-> TRUE, err |-> "", origin_city |-> Capitalize(frm),
      destination_city |-> Capitalize(to),
      depart_date |-> dep, return_date |-> ret, depart_month |-> NoDate,
      min_days |-> -1, max_days |-> -1, direct |-> direct ]

\* the dict of a duration range
MonthIntent(frm, to, ym, mn, mx, direct) ==
    [ ok |-> TRUE, err |-> "", origin_city |-> Capitalize(frm),
      destination_city |-> Capitalize(to),
      depart_date |-> NoDate, return_date |-> NoDate, depart_month |-> ym,
      min_days |-> mn, max_days |-> mx, direct |-> direct ]

\* s_year by the month alone
FullMonthStartYearByMonth(today, sm, s_day) ==
    today[1] + (IF sm < today[2] THEN 1 ELSE 0)

\* line 130: s_year
FullMonthStartYear(today, sm, s_day) ==
    today[1] + (IF sm < today[2] \/ (sm = today[2] /\ s_day < today[3]) THEN 1 ELSE 0)

\* line 131: e_year
FullMonthEndYear(s_year, sm, em) == IF em >= sm THEN s_year ELSE s_year + 1

\* line 145: year of the same-month range
RangeYear(today, mnum) == today[1] + (IF mnum < today[2] THEN 1 ELSE 0)

\* line 175: year of the duration phrase with a month word
DurationYear(today, mnum) == today[1] + (IF mnum < today[2] THEN 1 ELSE 0)

\* the two numbers as written
DurationAsWritten(mn, mx) == << mn, mx >>

\* lines 171-172: the smaller and the larger of the two numbers
NormalizeDuration(mn, mx) == IF mn > mx THEN << mx, mn >> ELSE << mn, mx >>

\* lines 135-137: the two dates are built, then the dict
FullMonthDates(T, p, s_year, sm, e_year, em) ==
    IF \/ ~ ValidDate(s_year, sm, DigitsToInt(T[p + 3]))
       \/ ~ ValidDate(e_year, em, DigitsToInt(T[p + 6]))
    THEN ParseError("date")
    ELSE DatesIntent(From(T[p]), T[p + 1], << s_year, sm, DigitsToInt(T[p + 3]) >>,
                     << e_year, em, DigitsToInt(T[p + 6]) >>,
                     DirectAfter(T, p + 7, AllWord(T[p + 7])))

FullMonthYears(T, p, s_year, sm, em) ==
    FullMonthDates(T, p, s_year, sm, FullMonthEndYear(s_year, sm, em), em)

FullMonthIntent(T, p, today, sm, em) ==
    IF sm = 0 \/ em = 0 THEN ParseError("month")
    ELSE FullMonthYears(T, p, FullMonthStartYear(today, sm, DigitsToInt(T[p + 3])), sm, em)

\* the word group <em>, <month>: the leading \w characters of the word
WordPrefix(w) == SubSeq(w, 1, PrefixLen(w, FALSE))

\* lines 126-138
ParseFullMonth(T, p, today) ==
    FullMonthIntent(T, p, today, normalize_month(T[p + 4]),
                    normalize_month(WordPrefix(T[p + 7])))

\* lines 149-151
RangeDates(T, p, year, mnum) ==
    IF \/ ~ ValidDate(year, mnum, DigitsToInt(T[p + 3]))
       \/ ~ ValidDate(year, mnum, DigitsToInt(T[p + 5]))
    THEN ParseError("date")
    ELSE DatesIntent(From(T[p]), T[p + 1], << year, mnum, DigitsToInt(T[p + 3]) >>,
                     << year, mnum, DigitsToInt(T[p + 5]) >>,
                     DirectAfter(T, p + 6, AllWord(T[p + 6])))

RangeIntent(T, p, today, mnum) ==
    IF mnum = 0 THEN ParseError("month")
    ELSE RangeDates(T, p, RangeYear(today, mnum), mnum)

\* lines 141-152
ParseRange(T, p, today) ==
    RangeIntent(T, p, today, normalize_month(WordPrefix(T[p + 6])))

\* the group <end> of NO_MONTH_RANGE: the first one or two digits of the word
EndDigits(w) == SubSeq(w, 1, IF PrefixLen(w, TRUE) > 2 THEN 2 ELSE PrefixLen(w, TRUE))

\* lines 155-165
ParseNoMonth(T, p, today) ==
    IF \/ ~ ValidDate(today[1], today[2], DigitsToInt(T[p + 3]))
       \/ ~ ValidDate(today[1], today[2], DigitsToInt(EndDigits(T[p + 5])))
    THEN ParseError("date")
    ELSE DatesIntent(From(T[p]), T[p + 1], << today[1], today[2], DigitsToInt(T[p + 3]) >>,
                     << today[1], today[2], DigitsToInt(EndDigits(T[p + 5])) >>,
                     DirectAfter(T, p + 5, Len(EndDigits(T[p + 5])) = Len(T[p + 5])))

\* lines 178-185
DurationIntent(T, p, r, year, mnum, d) ==
    MonthIntent(From(T[p]), T[p + 1], << year, mnum >>, d[1], d[2],
                DurationDirect(T, r))

\* lines 173-175: the month word is given
DurationWithMonth(T, p, today, mnum) ==
    IF mnum = 0 THEN ParseError("month")
    ELSE DurationIntent(T, p, p + 4, DurationYear(today, mnum), mnum,
                        NormalizeDuration(RangeMin(T[p + 4]), RangeMax(T[p + 4])))

\* lines 168-185
ParseDuration(T, p, today) ==
    IF DurationMonthAt(T, p)
    THEN DurationWithMonth(T, p, today, normalize_month(T[p + 3]))
    ELSE DurationIntent(T, p, p + 3, today[1], today[2],
                        NormalizeDuration(RangeMin(T[p + 3]), RangeMax(T[p + 3])))

\* which pattern parse_query uses for the preprocessed words T: the first of
\* the four, in the order of the code, that matches somewhere
Pattern(T) ==
    IF Leftmost({ p \in DOMAIN T : FullMonthAt(T, p) }) > 0 THEN "full_month"
    ELSE IF Leftmost({ p \in DOMAIN T : RangeAt(T, p) }) > 0 THEN "range"
    ELSE IF Leftmost({ p \in DOMAIN T : NoMonthAt(T, p) }) > 0 THEN "no_month"
    ELSE IF Leftmost({ p \in DOMAIN T : DurationAt(T, p) }) > 0 THEN "duration"
    ELSE "none"

\* the dispatch of parse_query on the pattern k
ParseAs(T, k, today) ==
    IF k = "full_month" THEN ParseFullMonth(T, Leftmost({ p \in DOMAIN T : FullMonthAt(T, p) }), today)
    ELSE IF k = "range" THEN ParseRange(T, Leftmost({ p \in DOMAIN T : RangeAt(T, p) }), today)
    ELSE IF k = "no_month" THEN ParseNoMonth(T, Leftmost({ p \in DOMAIN T : NoMonthAt(T, p) }), today)
    ELSE IF k = "duration" THEN ParseDuration(T, Leftmost({ p \in DOMAIN T : DurationAt(T, p) }), today)
    ELSE ParseError("format")

\* lines 123-187, on the preprocessed words
ParseWords(T, today) == ParseAs(T, Pattern(T), today)

\* parse_query(msg) on the day `today`
parse_query(msg, today) == ParseWords(Preprocess(msg), today)

\* ----------------------------------------------------------- place lookup

\* CITY_ALIASES: <<key, formal name>>
CITY_ALIASES ==
    { << << "P", "i", "t", "e", "r" >>,
         << "S", "a", "n", "k", "t", "-", "P", "e", "t", "e", "r", "b", "u", "r", "g" >> >>,
      << << "S", "P", "b" >>,
         << "S", "a", "n", "k", "t", "-", "P", "e", "t", "e", "r", "b", "u", "r", "g" >> >>,
      << << "M", "s", "k" >>, << "M", "o", "s", "k", "v", "a" >> >>,
      << << "N", "o", "v", "o", "s", "i", "b", "r", "s", "k" >>,
         << "N", "o", "v", "o", "s", "i", "b", "i", "r", "s", "k" >> >>,
      << << "N", "yu", "r", "e", "n", "g", "i" >>,
         << "N", "e", "r", "yu", "n", "g", "r", "i" >> >> }

\* line 104: CITY_ALIASES.get(city.capitalize(), city)
CitySearch(city) ==
    IF \E a \in CITY_ALIASES : a[1] = Capitalize(city)
    THEN (CHOOSE a \in CITY_ALIASES : a[1] = Capitalize(city))[2]
    ELSE city

\* name.split(',')[0]
RECURSIVE BeforeComma(_)
BeforeComma(name) ==
    IF name = << >> THEN << >>
    ELSE IF name[1] = "," THEN << >>
    ELSE << name[1] >> \o BeforeComma(Tail(name))

\* lines 92-97: the loop of best_suggestion over suggestions[k..]
RECURSIVE BestFrom(_, _, _, _, _)
RECURSIVE BestStep(_, _, _, _, _, _)
\* the loop taking a candidate that scores as much as the best so far
BestStepOnTie(term_l, suggestions, k, best, best_ratio, r) ==
    IF ~ RatioLess(r, best_ratio)
    THEN BestFrom(term_l, suggestions, k + 1, suggestions[k], r)
    ELSE BestFrom(term_l, suggestions, k + 1, best, best_ratio)

BestStep(term_l, suggestions, k, best, best_ratio, r) ==
    IF RatioLess(best_ratio, r)
    THEN BestFrom(term_l, suggestions, k + 1, suggestions[k], r)
    ELSE BestFrom(term_l, suggestions, k + 1, best, best_ratio)

BestFrom(term_l, suggestions, k, best, best_ratio) ==
    IF k > Len(suggestions) THEN best
    ELSE BestStep(term_l, suggestions, k, best, best_ratio,
                  Ratio(term_l, Lower(BeforeComma(suggestions[k].name))))

\* best_suggestion(term, suggestions), suggestions not empty
best_suggestion(term, suggestions) ==
    BestFrom(Lower(term), suggestions, 1, suggestions[1], << 0, 1 >>)

\* no answer is taken to be empty
NeverNotFound(data) == FALSE

\* line 112: `if not data`
PlaceNotFound(data) == data = << >>

\* ------------------------------------------------------------- the search

\* an insertion before the fares of equal price
RECURSIVE InsertBeforeEqual(_, _)
InsertBeforeEqual(sorted, f) ==
    IF sorted = << >> THEN << f >>
    ELSE IF f.price <= sorted[1].price THEN << f >> \o sorted
    ELSE << sorted[1] >> \o InsertBeforeEqual(Tail(sorted), f)

\* sorted(out, key=lambda x: x['price']): a stable insertion of each fare
\* after the fares already placed whose price is not greater
RECURSIVE InsertByPrice(_, _)
InsertByPrice(sorted, f) ==
    IF sorted = << >> THEN << f >>
    ELSE IF f.price < sorted[1].price THEN << f >> \o sorted
    ELSE << sorted[1] >> \o InsertByPrice(Tail(sorted), f)

RECURSIVE SortedFrom(_, _)
SortedFrom(done, rest) ==
    IF rest = << >> THEN done
    ELSE SortedFrom(InsertByPrice(done, rest[1]), Tail(rest))

SortByPrice(out) == SortedFrom(<< >>, out)

\* no call is taken to have failed
NeverFails(resp) == FALSE

\* r.raise_for_status(): the call failed (transport error or error status)
CallFails(resp) == ~ resp.ok

\* the range without its last day
OneWayDaysExclusive(st, en) == DaysBetween(st, en)

\* line 200: range((en - st).days + 1)
OneWayDays(st, en) == DaysBetween(st, en) + 1

\* line 284: range(min_days, max_days + 1), as the last length
LastLength(p) == p.max_days

\* the grouped answer is taken to hold entries
AlwaysHasEntries(dg) == TRUE

\* line 298: `if dg`
GroupedHasEntries(dg) == dg # << >>

\* the re-search of every empty result
RelaxWhenEmpty(p, fl) == fl = << >>

\* bot.py line 74: `params.get('direct') and not flights`
NeedsRelaxedSearch(p, fl) == p.direct /\ fl = << >>

\* the strategy search_flights selects (lines 197, 222, 255, 281)
Strategy(p) ==
    IF p.oneway /\ p.depart_date # NoDate /\ p.return_date # NoDate THEN "oneway_range"
    ELSE IF p.oneway THEN "oneway_single"
    ELSE IF p.depart_date # NoDate /\ p.return_date # NoDate THEN "round_exact"
    ELSE IF p.depart_month # NoDate THEN "round_duration"
    ELSE "none"

\* an entry of `out`
Fare(dep, ret, price, stops, length) ==
    [ depart |-> dep, return |-> ret, price |-> price, stops |-> stops, length |-> length ]

\* ----------------------------------------------------------------- inputs

Moskva  == << "M", "o", "s", "k", "v", "a" >>
Parizh  == << "P", "a", "r", "i", "zh" >>
Msk     == << "m", "s", "k" >>
Piter   == << "P", "i", "t", "e", "r" >>
SanktPeterburg ==
    << "S", "a", "n", "k", "t", "-", "P", "e", "t", "e", "r", "b", "u", "r", "g" >>
Pryamoj == << "p", "r", "ya", "m", "o", "j" >>
Dnej    == << "d", "n", "e", "j" >>
OneWayWords == << << "v" >>, << "o", "d", "n", "u" >>, << "s", "t", "o", "r", "o", "n", "u" >> >>

\* str(n) for 0 <= n <= 99
IntToWord(n) ==
    IF n < 10 THEN << Digits[n + 1] >> ELSE << Digits[(n \div 10) + 1], Digits[(n % 10) + 1] >>

\* the requests of the four shapes, from Moskva to Parizh
FullMonthText(d1, m1, d2, m2) ==
    << Moskva, Parizh, KwS, IntToWord(d1), m1, KwPo, IntToWord(d2), m2 >>
RangeText(d1, d2, m) == << Moskva, Parizh, KwS, IntToWord(d1), KwPo, IntToWord(d2), m >>
BareText(d1, d2) == << Moskva, Parizh, KwS, IntToWord(d1), KwPo, IntToWord(d2) >>
DurationText(a, b) ==
    << Moskva, Parizh, KwNa, IntToWord(a) \o << "-" >> \o IntToWord(b), Dnej >>
DurationMonthText(m, a, b) ==
    << Moskva, Parizh, KwNa, m, IntToWord(a) \o << "-" >> \o IntToWord(b), Dnej >>

\* the duration request with the range and the day word written as one word
DurationGluedText(a, b) ==
    << Moskva, Parizh, KwNa, IntToWord(a) \o << "-" >> \o IntToWord(b) \o Dnej >>

\* the same request with the trailing direct qualifier
WithDirect(t) == Append(t, Pryamoj)

\* month words of the requests: genitive and nominative forms, a misspelt
\* form, and a word that is no month
MonthWords ==
    { MONTH_ALIASES[1], MONTH_ALIASES[2], MONTH_ALIASES[5], MONTH_ALIASES[12],
      MONTHS[5], << "m", "a", "i" >>, KwPo }

DaySamples == {1, 15, 29, 31}

\* the largest of the small trip lengths of the requests
MaxDuration == 3

DurationSamples == (0 .. MaxDuration) \cup {10}

\* the requests the parser is checked on, by shape
FullMonthTexts ==
    { FullMonthText(d1, m1, d2, m2) :
        d1 \in {1, 15, 31}, d2 \in {15, 29},
        m1 \in MonthWords, m2 \in { MONTH_ALIASES[1], MONTH_ALIASES[5], MONTHS[5] } }

RangeTexts == { RangeText(d1, d2, m) : d1 \in DaySamples, d2 \in DaySamples, m \in MonthWords }

BareTexts == { BareText(d1, d2) : d1 \in DaySamples, d2 \in DaySamples }

DurationTexts == { DurationText(a, b) : a \in DurationSamples, b \in DurationSamples }

DurationMonthTexts ==
    { DurationMonthText(m, a, b) :
        m \in MonthWords, a \in DurationSamples, b \in DurationSamples }

DurationGluedTexts ==
    { DurationGluedText(a, b) : a \in DurationSamples, b \in DurationSamples }

\* the cities joined by a hyphen, alone, after a leading arrow, and after a
\* word that ends in a comma
HeadTexts ==
    { << h \o Moskva \o << "-" >> \o Parizh, KwS, IntToWord(1), KwPo, IntToWord(15) >> :
        h \in { << >>, << "arrow" >>, << "a", "," >> } }

BaseTexts ==
    FullMonthTexts \cup RangeTexts \cup BareTexts \cup DurationTexts \cup DurationMonthTexts
    \cup DurationGluedTexts \cup HeadTexts
    \cup { << Moskva, Parizh >>, << Moskva, Parizh, KwS, IntToWord(1) >> }

ParseTexts == BaseTexts \cup { WithDirect(t) : t \in BaseTexts }

ParseTodays ==
    { << 2024, 2, 29 >>, << 2025, 1, 1 >>, << 2025, 5, 1 >>, << 2025, 5, 15 >>,
      << 2025, 5, 31 >>, << 2025, 12, 31 >> }

\* the messages the handler is checked on: each strategy, with and without
\* the direct qualifier, an alias, a hyphenated head and a malformed request
HandlerTexts ==
    { FullMonthText(30, MONTH_ALIASES[12], 2, MONTH_ALIASES[1]) \o OneWayWords,
      WithDirect(FullMonthText(31, MONTH_ALIASES[5], 1, MONTHS[6])) \o OneWayWords,
      RangeText(5, 3, MONTH_ALIASES[5]) \o OneWayWords,
      RangeText(1, 2, MONTHS[6]),
      WithDirect(RangeText(2, 4, MONTHS[6])),
      DurationText(3, 2),
      WithDirect(DurationMonthText(MONTH_ALIASES[2], 1, 1)),
      DurationText(2, 3) \o OneWayWords,
      WithDirect(DurationText(2, 2)) \o OneWayWords,
      << Msk \o << "-" >> \o Piter, KwS, IntToWord(1), KwPo, IntToWord(1) >>,
      << Moskva, Parizh >> }

HandlerTodays == { << 2025, 5, 20 >> }

\* what the price service holds: fares only for departures on these days of
\* a month, each answer at most two entries of these kinds
FareDays == {1, 2}

ItemKinds ==
    { [ price |-> 100, transfers |-> 0 ],
      [ price |-> 100, transfers |-> 1 ],
      [ price |-> 50,  transfers |-> 1 ] }

\* the most fares one search_flights invocation is given in all
MaxFares == 2

\* an item of a prices_for_dates answer: its dates are those of the query
\* (return_at absent for a one-way query)
Items(dep, ret) ==
    { [ departure_at |-> dep, return_at |-> ret, price |-> k.price,
        transfers |-> k.transfers ] : k \in ItemKinds }

\* the answers of prices_for_dates to a query for the dates dep and ret: the
\* `data` list
ExactResponses(dep, ret, room) ==
    IF dep[3] \notin FareDays \/ room <= 0 THEN { << >> }
    ELSE { << >> } \cup { << a >> : a \in Items(dep, ret) }
         \cup (IF room >= 2
               THEN { << a, b >> : a \in Items(dep, ret), b \in Items(dep, ret) }
               ELSE {})

\* an entry of a grouped answer names its return some days after the
\* departure, or not at all
ReturnStay == 3

\* the answers of grouped_prices for the month ym: the `data` dict, in the
\* order of the response: the key (the date of departure) and the entry
GroupedEntry(dep, ret, k) ==
    [ depart |-> dep, return_at |-> ret, price |-> k.price, transfers |-> k.transfers ]

GroupedEntries(ym) ==
    UNION { { GroupedEntry(<< ym[1], ym[2], d >>, NoDate, k),
              GroupedEntry(<< ym[1], ym[2], d >>,
                           AddDays(<< ym[1], ym[2], d >>, ReturnStay), k) } :
            d \in FareDays, k \in ItemKinds }

GroupedResponses(ym, room) ==
    IF room <= 0 THEN { << >> }
    ELSE { << >> } \cup { << a >> : a \in GroupedEntries(ym) }
         \cup (IF room >= 2
               THEN { p \in GroupedEntries(ym) \X GroupedEntries(ym) :
                        p[1].depart # p[2].depart }
               ELSE {})

\* an answer of an upstream service: the call failed (transport error or
\* error status), or it carries the JSON data
Failed == [ ok |-> FALSE, data |-> << >> ]
Answer(data) == [ ok |-> TRUE, data |-> data ]

\* the places the autocomplete service knows, in its two orders
KnownPlaces ==
    << [ name |-> Moskva \o << ",", "R", "o", "s", "s", "i", "ya" >>,
         code |-> << "m", "o", "v" >>, country_code |-> << "R", "U" >> ],
       [ name |-> Parizh, code |-> << "P", "A", "R" >>, country_code |-> << "F", "R" >> ],
       [ name |-> SanktPeterburg, code |-> << "L", "E", "D" >>,
         country_code |-> << "r", "u" >> ] >>

Reverse(s) == [ i \in DOMAIN s |-> s[Len(s) + 1 - i] ]

PlaceResponses == { Failed, Answer(<< >>), Answer(KnownPlaces), Answer(Reverse(KnownPlaces)) }

\* the candidates the resolver is checked on: two places of one primary name,
\* a place of another name, and one that shares no letter with any term
Yuzhnyj == << "YU", "zh", "n", "y", "j" >>

Candidates ==
    { KnownPlaces[1], KnownPlaces[3],
      [ name |-> Moskva \o << ",", "A", "j", "d", "a", "h", "o" >>,
        code |-> << "M", "S", "C" >>, country_code |-> << "U", "S" >> ],
      [ name |-> << "F", "f" >>, code |-> << "F", "F", "F" >>, country_code |-> << "F", "F" >> ] }

\* the longest answer of the autocomplete service
MaxCandidates == 3

RECURSIVE ListsOf(_, _)
ListsOf(S, n) ==
    IF n = 0 THEN { << >> }
    ELSE { << >> } \cup { << x >> \o l : x \in S, l \in ListsOf(S, n - 1) }

ResolverResponses == { Answer(l) : l \in ListsOf(Candidates, MaxCandidates) }

\* the requests the resolver is checked on: the origin a name, a name in
\* another case, an alias, a misspelling and a word unlike every candidate
ResolverTexts ==
    { << o, Parizh, KwS, IntToWord(1), KwPo, IntToWord(1) >> :
        o \in { Moskva, << "P", "I", "T", "E", "R" >>, Msk, << "M", "o", "s", "v", "a" >>, Yuzhnyj } }

\* ------------------------------------------------------------------ state

VARIABLES
    today,        \* date.today()
    text,         \* update.message.text, as words
    pc,           \* where the handling of the message stands
    params,       \* the dict `params` of handle_query
    orig,         \* the place found for the origin
    lookups,      \* the place lookups made, in order: term and outcome
    invocations,  \* the params of each search_flights invocation, in order
    returns,      \* the list each returned search_flights invocation returned
    calls,        \* the fare queries of the current invocation, in order
    received,     \* the entries those queries returned, in order
    out,          \* the list `out` of search_flights
    length,       \* the loop variable `length` (strategy 4)
    idx,          \* the loop variable `i` (strategy 1) or `day` (strategy 4; 0: grouped query next)
    flights,      \* the list `flights` of handle_query
    reply         \* the reply sent: its kind and the term or error it names

vars == << today, text, pc, params, orig, lookups, invocations, returns, calls,
           received, out, length, idx, flights, reply >>

NoPlace == [ name |-> << >>, code |-> << >>, country_code |-> << >> ]

NoReply == [ kind |-> "", names |-> << >> ]

\* the dict params: the parser's dict and the keys handle_query adds
Params(r, oneway) ==
    [ ok |-> r.ok, err |-> r.err, origin_city |-> r.origin_city,
      destination_city |-> r.destination_city, depart_date |-> r.depart_date,
      return_date |-> r.return_date, depart_month |-> r.depart_month,
      min_days |-> r.min_days, max_days |-> r.max_days, direct |-> r.direct,
      oneway |-> oneway, ori |-> << >>, dst |-> << >>, market |-> << >> ]

InitWith(todays, texts) ==
    /\ today \in todays
    /\ text \in texts
    /\ pc = "start"
    /\ params = Params(ParseError(""), FALSE)
    /\ orig = NoPlace
    /\ lookups = << >>
    /\ invocations = << >>
    /\ returns = << >>
    /\ calls = << >>
    /\ received = << >>
    /\ out = << >>
    /\ length = 0
    /\ idx = 0
    /\ flights = << >>
    /\ reply = NoReply

Init == InitWith(HandlerTodays, HandlerTexts)

InitParse == InitWith(ParseTodays, ParseTexts)

\* ---------------------------------------------------------- handle_query

\* bot.py line 58: re.search(r'\bv\s+odnu\s+storonu\b', text, IGNORECASE) with
\* "v" in the word at i: "v" ends that word, after nothing or after a
\* character that is not \w; "odnu" is the next word; "storonu" starts the
\* word after it, before nothing or before a character that is not \w
OneWayAt(T, i) ==
    /\ i + 2 <= Len(T)
    /\ Lower(<< T[i][Len(T[i])] >>) = OneWayWords[1]
    /\ (Len(T[i]) > 1 => ~ IsWordChar(T[i][Len(T[i]) - 1]))
    /\ Lower(T[i + 1]) = OneWayWords[2]
    /\ HasPrefix(Lower(T[i + 2]), OneWayWords[3])
    /\ (Len(T[i + 2]) > Len(OneWayWords[3])
            => ~ IsWordChar(T[i + 2][Len(OneWayWords[3]) + 1]))

HasOneWay(T) == \E i \in 1 .. Len(T) : OneWayAt(T, i)

\* what the phrase at the words 1..3 leaves of the first and of the third word
Before(T) == SubSeq(T[1], 1, Len(T[1]) - 1)
After(T) == SubSeq(T[3], Len(OneWayWords[3]) + 1, Len(T[3]))

\* the two remainders are left side by side, with no space between them
Glue(a, rest) == IF a = << >> THEN rest ELSE << a \o rest[1] >> \o Tail(rest)

\* bot.py line 59: re.sub(...) of every occurrence, left to right, then strip()
RECURSIVE StripOneWay(_)
StripOneWay(T) ==
    IF T = << >> THEN << >>
    ELSE IF ~ OneWayAt(T, 1) THEN << T[1] >> \o StripOneWay(Tail(T))
    ELSE IF After(T) = << >>
    THEN (IF Before(T) = << >> THEN << >> ELSE << Before(T) >>)
         \o StripOneWay(SubSeq(T, 4, Len(T)))
    ELSE Glue(Before(T), StripOneWay(<< After(T) >> \o SubSeq(T, 4, Len(T))))

\* the except clauses of handle_query (lines 141-147): the reply, and the end
Finish(kind, names) ==
    /\ pc' = "done"
    /\ reply' = [ kind |-> kind, names |-> names ]

\* lines 62-63 and 141-142: the dict, or the reply to a ValueError
Parsed(r) ==
    /\ params' = Params(r, HasOneWay(text))
    /\ IF r.ok
       THEN pc' = "origin" /\ reply' = reply
       ELSE Finish("parse_error", << >>)

\* lines 57-63: the qualifier, the parse
HandleStart ==
    /\ pc = "start"
    /\ Parsed(parse_query(StripOneWay(text), today))
    /\ UNCHANGED << today, text, orig, lookups, invocations, returns, calls,
                    received, out, length, idx, flights >>

\* lines 105-114: the lookup of the term
PlaceFor(term, resp) ==
    IF CallFails(resp) THEN [ status |-> "error", term |-> term, place |-> NoPlace ]
    ELSE IF PlaceNotFound(resp.data)
    THEN [ status |-> "not_found", term |-> term, place |-> NoPlace ]
    ELSE IF resp.data = << >>
    THEN [ status |-> "error", term |-> term, place |-> NoPlace ]
    ELSE [ status |-> "ok", term |-> term, place |-> best_suggestion(term, resp.data) ]

\* get_place(city) given the answer of the autocomplete service
GetPlace(city, resp) == PlaceFor(CitySearch(city), resp)

\* what the reply to a failed lookup names: AirportNotFoundError carries the
\* term (line 113, bot.py line 144); the generic reply of bot.py lines
\* 145-147 names nothing
ReplyNames(g) == IF g.status = "not_found" THEN g.term ELSE << >>

\* the log entry of a lookup
Lookup(g, resp) ==
    [ term |-> g.term, status |-> g.status,
      candidates |-> IF resp.ok THEN Len(resp.data) ELSE -1 ]

OriginLookedUp(g, resp) ==
    /\ lookups' = Append(lookups, Lookup(g, resp))
    /\ orig' = g.place
    /\ IF g.status = "ok" THEN pc' = "dest" /\ reply' = reply
       ELSE Finish(g.status, ReplyNames(g))

\* line 65: orig = get_place(params['origin_city'])
GetPlaceOrigin ==
    /\ pc = "origin"
    /\ \E resp \in PlaceResponses : OriginLookedUp(GetPlace(params.origin_city, resp), resp)
    /\ UNCHANGED << today, text, params, invocations, returns, calls, received,
                    out, length, idx, flights >>

Upper(w) == [ i \in DOMAIN w |-> CharUpper(w[i]) ]

DestLookedUp(g, resp) ==
    /\ lookups' = Append(lookups, Lookup(g, resp))
    /\ IF g.status = "ok"
       THEN /\ pc' = "search"
            /\ reply' = reply
            /\ params' = [ params EXCEPT !.ori = Upper(orig.code),
                                         !.dst = Upper(g.place.code),
                                         !.market = Lower(orig.country_code) ]
       ELSE Finish(g.status, ReplyNames(g)) /\ params' = params

\* lines 66-71: dstn = get_place(params['destination_city']); params.update(...)
GetPlaceDest ==
    /\ pc = "dest"
    /\ \E resp \in PlaceResponses :
        DestLookedUp(GetPlace(params.destination_city, resp), resp)
    /\ UNCHANGED << today, text, orig, invocations, returns, calls, received,
                    out, length, idx, flights >>

\* ---------------------------------------------------------- search_flights

Flag(b) == IF b THEN "true" ELSE "false"

\* one requests.get of search_flights: the URL and the query parameters that
\* differ from call to call ("" and the empty sequence: parameter not sent),
\* and how many entries the answer held (-1: the call failed)
Call(url, q, resp) ==
    [ url |-> url, origin |-> params.ori, destination |-> params.dst,
      market |-> params.market, direct |-> Flag(params.direct),
      departure_at |-> q.departure_at, return_at |-> q.return_at,
      depart_month |-> q.depart_month, trip_duration |-> q.trip_duration,
      one_way |-> q.one_way,
      entries |-> IF resp.ok THEN Len(resp.data) ELSE -1 ]

Query(dep, ret, month, duration, oneway) ==
    [ departure_at |-> dep, return_at |-> ret, depart_month |-> month,
      trip_duration |-> duration, one_way |-> oneway ]

\* the exception of raise_for_status leaves search_flights and is caught at
\* bot.py lines 145-147
Abort ==
    /\ Finish("error", << >>)
    /\ UNCHANGED << out, received, length, idx, flights, returns >>

\* `return sorted(out, ...)` to bot.py line 73 or 76
Return(result) ==
    /\ flights' = SortByPrice(result)
    /\ returns' = Append(returns, SortByPrice(result))
    /\ pc' = "returned"
    /\ reply' = reply

\* lines 213-218: the entries of `out` made of the items of a one-way
\* prices_for_dates answer
RECURSIVE OneWayFares(_)
OneWayFares(data) ==
    IF data = << >> THEN << >>
    ELSE << Fare(data[1].departure_at, NoDate, data[1].price, data[1].transfers, -1) >>
         \o OneWayFares(Tail(data))

\* lines 269-277: those of the exact round trip, the length that of the item
RECURSIVE RoundTripFares(_)
RoundTripFares(data) ==
    IF data = << >> THEN << >>
    ELSE << Fare(data[1].departure_at, data[1].return_at, data[1].price,
                 data[1].transfers, DaysBetween(data[1].departure_at, data[1].return_at)) >>
         \o RoundTripFares(Tail(data))

\* lines 326-333: those of the exact query of a day, the length that of the loop
RECURSIVE ExactFares(_, _)
ExactFares(data, len) ==
    IF data = << >> THEN << >>
    ELSE << Fare(data[1].departure_at, data[1].return_at, data[1].price,
                 data[1].transfers, len) >>
         \o ExactFares(Tail(data), len)

\* lines 239-244: the entries of `out` made of the entries of the grouped
\* answer of a one-way month
RECURSIVE OneWayGroupedFares(_)
OneWayGroupedFares(data) ==
    IF data = << >> THEN << >>
    ELSE << Fare(data[1].depart, NoDate, data[1].price, data[1].transfers, -1) >>
         \o OneWayGroupedFares(Tail(data))

\* lines 300-307: those of the grouped answer for a trip length; the return
\* is the entry's own return_at, empty when it has none
RECURSIVE GroupedFares(_, _)
GroupedFares(data, len) ==
    IF data = << >> THEN << >>
    ELSE << Fare(data[1].depart, data[1].return_at, data[1].price, data[1].transfers,
                 len) >>
         \o GroupedFares(Tail(data), len)

Room == MaxFares - Len(received)

\* line 189: search_flights(params) is entered; the strategy is selected
SearchFlights ==
    /\ pc = "search"
    /\ invocations' = Append(invocations, params)
    /\ pc' = Strategy(params)
    /\ out' = << >>
    /\ calls' = << >>
    /\ received' = << >>
    /\ idx' = 0
    /\ length' = IF Strategy(params) = "round_duration" THEN params.min_days ELSE 0
    /\ UNCHANGED << today, text, params, orig, lookups, returns, flights, reply >>

\* lines 200-218: one pass of the loop over the days of the range
OneWayExactCall ==
    /\ pc = "oneway_range"
    /\ idx < OneWayDays(params.depart_date, params.return_date)
    /\ LET d == AddDays(params.depart_date, idx)
       IN  \E resp \in { Failed } \cup { Answer(x) : x \in ExactResponses(d, NoDate, Room) } :
            /\ calls' = Append(calls, Call("prices_for_dates",
                                 Query(d, NoDate, NoDate, -1, Flag(params.oneway)), resp))
            /\ IF CallFails(resp) THEN Abort
               ELSE /\ out' = out \o OneWayFares(resp.data)
                    /\ received' = received \o resp.data
                    /\ idx' = idx + 1
                    /\ UNCHANGED << pc, reply, length, flights, returns >>
    /\ UNCHANGED << today, text, params, orig, lookups, invocations >>

\* lines 222-252: the single query of a one-way month (or single date)
OneWaySingleCall ==
    /\ pc = "oneway_single"
    /\ IF params.depart_date # NoDate
       THEN \E resp \in { Failed }
                 \cup { Answer(x) : x \in ExactResponses(params.depart_date, NoDate, Room) } :
            /\ calls' = Append(calls, Call("prices_for_dates",
                                 Query(NoDate, NoDate, NoDate, -1, Flag(params.oneway)), resp))
            /\ IF CallFails(resp) THEN Abort /\ UNCHANGED << received, out >>
               ELSE /\ out' = out \o OneWayFares(resp.data)
                    /\ received' = received \o resp.data
                    /\ Return(out')
       ELSE \E resp \in { Failed }
                 \cup { Answer(x) : x \in GroupedResponses(params.depart_month, Room) } :
            /\ calls' = Append(calls, Call("grouped_prices",
                                 Query(NoDate, NoDate, params.depart_month, -1,
                                       Flag(params.oneway)), resp))
            /\ IF CallFails(resp) THEN Abort
               ELSE /\ out' = out \o OneWayGroupedFares(resp.data)
                    /\ received' = received \o resp.data
                    /\ Return(out')
    /\ UNCHANGED << today, text, params, orig, lookups, invocations, length, idx >>

\* lines 255-278: the single query of an exact round trip
RoundTripExactCall ==
    /\ pc = "round_exact"
    /\ \E resp \in { Failed }
           \cup { Answer(x) : x \in ExactResponses(params.depart_date, params.return_date,
                                                    Room) } :
        /\ calls' = Append(calls, Call("prices_for_dates",
                             Query(params.depart_date, params.return_date, NoDate, -1,
                                   "false"), resp))
        /\ IF CallFails(resp) THEN Abort
           ELSE /\ out' = out \o RoundTripFares(resp.data)
                /\ received' = received \o resp.data
                /\ Return(out')
    /\ UNCHANGED << today, text, params, orig, lookups, invocations, length, idx >>

\* lines 284-307: the month-grouped query of one trip length
GroupedCall ==
    /\ pc = "round_duration"
    /\ idx = 0
    /\ length <= LastLength(params)
    /\ \E resp \in { Failed }
           \cup { Answer(x) : x \in GroupedResponses(params.depart_month, Room) } :
        /\ calls' = Append(calls, Call("grouped_prices",
                             Query(params.depart_month, NoDate, NoDate, length, ""), resp))
        /\ IF CallFails(resp) THEN Abort
           ELSE /\ IF GroupedHasEntries(resp.data)
                   THEN /\ out' = out \o GroupedFares(resp.data, length)
                        /\ length' = length + 1
                        /\ idx' = 0
                   ELSE /\ out' = out
                        /\ length' = length
                        /\ idx' = 1
                /\ received' = received \o resp.data
                /\ UNCHANGED << pc, reply, flights, returns >>
    /\ UNCHANGED << today, text, params, orig, lookups, invocations >>

\* lines 311-333: the exact query of one day of the month, for one trip length
ExactFallbackCall ==
    /\ pc = "round_duration"
    /\ idx >= 1
    /\ LET year == params.depart_month[1]
           month == params.depart_month[2]
           dep_date == << year, month, idx >>
           ret_date == AddDays(dep_date, length)
       IN  \E resp \in { Failed }
                \cup { Answer(x) : x \in ExactResponses(dep_date, ret_date, Room) } :
            /\ calls' = Append(calls, Call("prices_for_dates",
                                 Query(dep_date, ret_date, NoDate, -1, "false"), resp))
            /\ IF CallFails(resp) THEN Abort
               ELSE /\ out' = out \o ExactFares(resp.data, length)
                    /\ received' = received \o resp.data
                    /\ IF idx < DaysInMonth(year, month)
                       THEN idx' = idx + 1 /\ length' = length
                       ELSE idx' = 0 /\ length' = length + 1
                    /\ UNCHANGED << pc, reply, flights, returns >>
    /\ UNCHANGED << today, text, params, orig, lookups, invocations >>

\* lines 219, 334, 336: the loops are over, the sorted list is returned
SearchReturn ==
    /\ \/ pc = "oneway_range" /\ idx >= OneWayDays(params.depart_date, params.return_date)
       \/ pc = "round_duration" /\ idx = 0 /\ length > LastLength(params)
       \/ pc = "none"
    /\ Return(out)
    /\ UNCHANGED << today, text, params, orig, lookups, invocations, calls, received,
                    out, length, idx >>

\* bot.py lines 74-80 and 139: after the first invocation, the relaxed
\* re-search of a direct-only request that found nothing; otherwise the reply
HandleResult ==
    /\ pc = "returned"
    /\ IF Len(invocations) = 1 /\ NeedsRelaxedSearch(params, flights)
       THEN /\ params' = [ params EXCEPT !.direct = FALSE ]
            /\ pc' = "search"
            /\ reply' = reply
       ELSE /\ Finish(IF flights = << >> THEN "no_flights" ELSE "results", << >>)
            /\ params' = params
    /\ UNCHANGED << today, text, orig, lookups, invocations, returns, calls, received,
                    out, length, idx, flights >>

Next ==
    \/ HandleStart
    \/ GetPlaceOrigin
    \/ GetPlaceDest
    \/ SearchFlights
    \/ OneWayExactCall
    \/ OneWaySingleCall
    \/ RoundTripExactCall
    \/ GroupedCall
    \/ ExactFallbackCall
    \/ SearchReturn
    \/ HandleResult

Spec == Init /\ [][Next]_vars

\* the parser alone, on every request of ParseTexts and every day of ParseTodays
NextParse == HandleStart

SpecParse == InitParse /\ [][NextParse]_vars

\* the resolver alone: the origin of every request of ResolverTexts, on every
\* answer of ResolverResponses
InitPlace == InitWith(HandlerTodays, ResolverTexts)

\* the lookup of the origin, its log entry holding the answer itself
OriginResolved(g, resp) ==
    /\ lookups' = Append(lookups, [ term |-> g.term, status |-> g.status,
                                    candidates |-> Lookup(g, resp).candidates,
                                    data |-> resp.data ])
    /\ orig' = g.place
    /\ IF g.status = "ok" THEN pc' = "dest" /\ reply' = reply
       ELSE Finish(g.status, ReplyNames(g))

\* line 65: orig = get_place(params['origin_city'])
ResolveOrigin ==
    /\ pc = "origin"
    /\ \E resp \in ResolverResponses :
        OriginResolved(GetPlace(params.origin_city, resp), resp)
    /\ UNCHANGED << today, text, params, invocations, returns, calls, received,
                    out, length, idx, flights >>

NextPlace == HandleStart \/ ResolveOrigin

SpecPlace == InitPlace /\ [][NextPlace]_vars

\* ------------------------------------------------------------- the parser

parsed == pc # "start"

\* the pattern of the code that matched the message
Matched == Pattern(Preprocess(StripOneWay(text)))

\* the message states a month: every match but the bare-day range and the
\* duration phrase without a month word
MonthBearing ==
    \/ Matched \in {"full_month", "range"}
    \/ /\ Matched = "duration"
       /\ DurationMonthAt(Preprocess(text), Leftmost({ p \in DOMAIN Preprocess(text) : DurationAt(Preprocess(text), p) }))

\* the year and the month the parser assigned to the (start) month
AssignedYear ==
    IF params.depart_date # NoDate THEN params.depart_date[1] ELSE params.depart_month[1]
AssignedMonth ==
    IF params.depart_date # NoDate THEN params.depart_date[2] ELSE params.depart_month[2]

\* C3: a date range whose start day and month lie before today's is given the
\* next year, and parse_query never returns a depart_date earlier than today.
DepartNeverInPast ==
    (parsed /\ params.ok /\ params.depart_date # NoDate) =>
        /\ ~ DateLess(params.depart_date, today)
        /\ (\/ params.depart_date[2] < today[2]
            \/ params.depart_date[2] = today[2] /\ params.depart_date[3] < today[3])
           => params.depart_date[1] = today[1] + 1

\* C7: a request followed by the direct qualifier is parsed as the same
\* pattern, with direct set and every other field as without the qualifier.
DirectQualifierOnly ==
    \A t \in FullMonthTexts \cup RangeTexts \cup BareTexts \cup DurationTexts :
        (parsed /\ text = WithDirect(t) /\ parse_query(t, today).ok) =>
            /\ Matched = Pattern(Preprocess(t))
            /\ params = [ Params(parse_query(t, today), FALSE) EXCEPT !.direct = TRUE ]

\* C8 as stated: for every month-bearing match the year is next year if the
\* stated month is before the current month, and this year otherwise.
YearByMonthOnly ==
    (parsed /\ params.ok /\ MonthBearing) =>
        AssignedYear = today[1] + (IF AssignedMonth < today[2] THEN 1 ELSE 0)

\* C8, amended: so for the same-month range and the duration phrase with a
\* month word; for the full-month range the year is also next year when the
\* start month is the current month and the start day is before today's day.
YearByMonthOrStartDay ==
    (parsed /\ params.ok /\ MonthBearing) =>
        AssignedYear = today[1] +
            (IF \/ AssignedMonth < today[2]
                \/ /\ Matched = "full_month"
                   /\ AssignedMonth = today[2]
                   /\ params.depart_date[3] < today[3]
             THEN 1 ELSE 0)

YearByStartDayReached ==
    /\ parsed /\ params.ok /\ Matched = "full_month"
    /\ AssignedMonth = today[2]
    /\ params.depart_date[3] < today[3]
    /\ AssignedYear = today[1] + 1

Min(a, b) == IF a <= b THEN a ELSE b
Max(a, b) == IF a >= b THEN a ELSE b

\* C9: "na A-B dnej" parses, to min_days = min(A, B) and max_days = max(A, B),
\* and "na B-A dnej" gives the same dict (also with a month word, when the
\* month is recognised).
DurationNormalized ==
    \A a \in DurationSamples, b \in DurationSamples :
        /\ (parsed /\ text \in { DurationText(a, b), WithDirect(DurationText(a, b)),
                               DurationGluedText(a, b) }) =>
            /\ params.ok
            /\ params.min_days = Min(a, b)
            /\ params.max_days = Max(a, b)
            /\ params.min_days <= params.max_days
            /\ text = DurationText(a, b)
               => params = Params(parse_query(DurationText(b, a), today), FALSE)
            /\ text = DurationGluedText(a, b)
               => params = Params(parse_query(DurationGluedText(b, a), today), FALSE)
        /\ \A m \in MonthWords :
            (parsed /\ text = DurationMonthText(m, a, b)) =>
                /\ params = Params(parse_query(DurationMonthText(m, b, a), today), FALSE)
                /\ params.ok => /\ params.min_days = Min(a, b)
                                /\ params.max_days = Max(a, b)

DurationSwapped ==
    /\ parsed
    /\ text = DurationText(10, 3)
    /\ params.ok /\ params.min_days = 3 /\ params.max_days = 10

\* ------------------------------------------------------------ the handler

\* the current search_flights invocation has returned
returned == invocations # << >> /\ Len(returns) = Len(invocations)

\* the params of the current invocation
Current == invocations[Len(invocations)]

answered == pc = "done" /\ reply.kind \in {"results", "no_flights"}

\* C1: a direct-only request whose first search returns nothing is searched
\* exactly once more, with direct cleared and nothing else changed, and that
\* result is final even when empty; otherwise there is exactly one search.
RelaxedSearchOnce ==
    /\ Len(invocations) <= 2
    /\ Len(invocations) = 2 =>
        /\ invocations[1].direct
        /\ returns[1] = << >>
        /\ invocations[2] = [ invocations[1] EXCEPT !.direct = FALSE ]
    /\ answered =>
        /\ Len(invocations) = (IF invocations[1].direct /\ returns[1] = << >> THEN 2 ELSE 1)
        /\ Len(returns) = Len(invocations)
        /\ flights = returns[Len(returns)]
        /\ reply.kind = (IF flights = << >> THEN "no_flights" ELSE "results")

RelaxedSearchEmpty ==
    /\ answered
    /\ Len(invocations) = 2
    /\ invocations[1].direct /\ ~ invocations[2].direct
    /\ flights = << >>
    /\ reply.kind = "no_flights"

\* C2: a failed fare query is the last query of its invocation: the handling
\* ends with the error reply, the invocation returns no list, and the fares
\* collected before the failure reach nobody.
FailureAborts ==
    \A k \in DOMAIN calls :
        calls[k].entries = -1 =>
            /\ k = Len(calls)
            /\ pc = "done"
            /\ reply.kind = "error"
            /\ Len(returns) < Len(invocations)
            /\ flights = (IF returns = << >> THEN << >> ELSE returns[Len(returns)])

FailureAfterFares ==
    /\ pc = "done"
    /\ Len(calls) >= 2
    /\ calls[Len(calls)].entries = -1
    /\ received # << >>
    /\ reply.kind = "error"

\* C10: a fare query is issued only after the parse succeeded and the origin,
\* then the destination, were found; a failed parse or a lookup with no
\* candidates ends the handling with that failure (the lookup's naming the
\* term), with no fare query and no further lookup.
FareQueryAfterResolution ==
    /\ Len(lookups) <= 2
    /\ lookups # << >> => params.ok
    /\ (invocations # << >> \/ calls # << >>) =>
        /\ params.ok
        /\ Len(lookups) = 2
        /\ lookups[1].term = CitySearch(params.origin_city) /\ lookups[1].status = "ok"
        /\ lookups[2].term = CitySearch(params.destination_city) /\ lookups[2].status = "ok"
        /\ lookups[1].candidates > 0 /\ lookups[2].candidates > 0
    /\ \A k \in DOMAIN lookups :
        lookups[k].candidates = 0 =>
            /\ k = Len(lookups)
            /\ pc = "done"
            /\ reply = [ kind |-> "not_found", names |-> lookups[k].term ]
            /\ invocations = << >> /\ calls = << >>
    /\ (parsed /\ ~ params.ok) =>
        /\ pc = "done"
        /\ reply.kind = "parse_error"
        /\ lookups = << >> /\ invocations = << >> /\ calls = << >>

DestinationNotFound ==
    /\ pc = "done"
    /\ Len(lookups) = 2
    /\ lookups[1].status = "ok"
    /\ lookups[2].candidates = 0
    /\ reply = [ kind |-> "not_found", names |-> SanktPeterburg ]

\* ------------------------------------------------------------- the search

IsGrouped(k) == calls[k].url = "grouped_prices"

\* the grouped query that the query k belongs to
GroupedBefore(k) == CHOOSE g \in 1 .. k : IsGrouped(g) /\ \A h \in g + 1 .. k : ~ IsGrouped(h)

\* C4: a round-trip duration search takes the lengths min_days..max_days in
\* increasing order, each with one month-grouped query first; the exact
\* queries of a length are issued iff its grouped query returned no entries,
\* one per day of the month, in order, returning `length` days later.
DurationCalls ==
    (invocations # << >> /\ Strategy(Current) = "round_duration") =>
    LET dim == DaysInMonth(Current.depart_month[1], Current.depart_month[2])
        G   == { k \in DOMAIN calls : IsGrouped(k) }
        nLengths == Max(0, Current.max_days - Current.min_days + 1)
    IN  /\ calls # << >> => IsGrouped(1)
        /\ \A k \in G :
            /\ calls[k].trip_duration = Current.min_days + Cardinality({ g \in G : g < k })
            /\ calls[k].trip_duration <= Current.max_days
            /\ calls[k].departure_at = Current.depart_month
            /\ (k < Len(calls) /\ calls[k].entries > 0) => IsGrouped(k + 1)
            /\ (k < Len(calls) /\ calls[k].entries = 0) => ~ IsGrouped(k + 1)
            /\ (calls[k].entries = 0 /\ (returned \/ \E g \in G : g > k)) =>
                    /\ k + dim <= Len(calls)
                    /\ \A h \in k + 1 .. k + dim : ~ IsGrouped(h)
                    /\ (k + dim < Len(calls) => IsGrouped(k + dim + 1))
        /\ \A k \in DOMAIN calls \ G :
            LET g == GroupedBefore(k)
            IN  /\ calls[g].entries = 0
                /\ k - g <= dim
                /\ calls[k].url = "prices_for_dates"
                /\ calls[k].departure_at =
                        << Current.depart_month[1], Current.depart_month[2], k - g >>
                /\ ValidDate(calls[k].return_at[1], calls[k].return_at[2], calls[k].return_at[3])
                /\ DaysBetween(calls[k].departure_at, calls[k].return_at)
                        = calls[g].trip_duration
                /\ calls[k].one_way = "false"
        /\ returned => Cardinality(G) = nLengths

DurationBothWays ==
    /\ returned
    /\ Strategy(Current) = "round_duration"
    /\ Current.max_days > Current.min_days
    /\ \E k \in DOMAIN calls : IsGrouped(k) /\ calls[k].entries > 0
    /\ \E k \in DOMAIN calls : IsGrouped(k) /\ calls[k].entries = 0
    /\ \E k \in DOMAIN calls : ~ IsGrouped(k) /\ calls[k].entries > 0

\* how many entries of the sequence s have the price and the transfers of x
Count(s, price, transfers) ==
    Cardinality({ i \in DOMAIN s : s[i].price = price /\ s[i].transfers = transfers })
CountFares(s, price, stops) ==
    Cardinality({ i \in DOMAIN s : s[i].price = price /\ s[i].stops = stops })

\* C5: a one-way exact-range search issues one exact one-way query for every
\* day from depart_date to return_date, in date order, none skipped or
\* repeated, and returns exactly the fares of those queries.
OneWayRangeCalls ==
    (invocations # << >> /\ Strategy(Current) = "oneway_range") =>
        /\ \A k \in DOMAIN calls :
            /\ calls[k].url = "prices_for_dates"
            /\ calls[k].one_way = "true"
            /\ calls[k].return_at = NoDate
            /\ ValidDate(calls[k].departure_at[1], calls[k].departure_at[2],
                         calls[k].departure_at[3])
            /\ ToOrdinal(calls[k].departure_at) = ToOrdinal(Current.depart_date) + k - 1
            /\ ~ DateLess(Current.return_date, calls[k].departure_at)
        /\ returned =>
            /\ Len(calls) = Max(0, DaysBetween(Current.depart_date, Current.return_date) + 1)
            /\ Len(flights) = Len(received)
            /\ \A x \in ItemKinds :
                CountFares(flights, x.price, x.transfers) = Count(received, x.price, x.transfers)

OneWayRangeOverNewYear ==
    /\ returned
    /\ Strategy(Current) = "oneway_range"
    /\ Len(calls) = 4
    /\ calls[1].departure_at = << 2025, 12, 30 >>
    /\ calls[4].departure_at = << 2026, 1, 2 >>
    /\ Len(flights) = 2

\* the <<price, transfers>> of the entries of s that cost `price`, in order
RECURSIVE AtPrice(_, _)
AtPrice(s, price) ==
    IF s = << >> THEN << >>
    ELSE (IF s[1].price = price THEN << s[1].transfers >> ELSE << >>) \o AtPrice(Tail(s), price)

RECURSIVE FaresAtPrice(_, _)
FaresAtPrice(s, price) ==
    IF s = << >> THEN << >>
    ELSE (IF s[1].price = price THEN << s[1].stops >> ELSE << >>) \o FaresAtPrice(Tail(s), price)

\* C6: the returned list holds every fare of every query of the invocation,
\* in non-decreasing price, equal prices in the order the fares were received.
SortedStableComplete ==
    returned =>
        /\ flights = returns[Len(returns)]
        /\ Len(flights) = Len(received)
        /\ \A i \in DOMAIN flights : \A j \in DOMAIN flights :
            i < j => flights[i].price <= flights[j].price
        /\ \A x \in ItemKinds : FaresAtPrice(flights, x.price) = AtPrice(received, x.price)

SortedTieKept ==
    /\ returned
    /\ Len(calls) >= 2
    /\ Len(flights) = 2
    /\ flights[1].price = flights[2].price
    /\ flights[1].stops # flights[2].stops
    /\ flights[1].depart # flights[2].depart

SortedReordered ==
    /\ returned
    /\ Len(flights) = 2
    /\ received[1].price > received[2].price
    /\ flights[1].price < flights[2].price

\* ----------------------------------------------------------- the resolver

\* line 95: the score of the k-th candidate of the origin's lookup
Score(k) ==
    Ratio(Lower(lookups[1].term), Lower(BeforeComma(lookups[1].data[k].name)))

\* C11: when the lookup returns candidates the resolver does not fail and
\* returns one of them: one whose score is maximal among all, and the first
\* of those in the upstream order, also when every score is zero; no score
\* is too low to be accepted.
FirstBestCandidate ==
    (lookups # << >> /\ lookups[1].candidates >= 1) =>
        LET score == [ k \in DOMAIN lookups[1].data |-> Score(k) ]
        IN  /\ lookups[1].status = "ok"
            /\ pc # "done" /\ reply = NoReply
            /\ \E k \in DOMAIN score :
                /\ orig = lookups[1].data[k]
                /\ \A j \in DOMAIN score : ~ RatioLess(score[k], score[j])
                /\ \A j \in 1 .. k - 1 : RatioLess(score[j], score[k])

FirstOfTiedChosen ==
    /\ Len(lookups) = 1
    /\ lookups[1].candidates = 3
    /\ orig = lookups[1].data[2]
    /\ orig # lookups[1].data[1]
    /\ orig # lookups[1].data[3]
    /\ RatioLess(Score(1), Score(2))
    /\ RatioEq(Score(2), Score(3))

AllZeroFirstChosen ==
    /\ Len(lookups) = 1
    /\ lookups[1].candidates >= 2
    /\ \A k \in DOMAIN lookups[1].data : Score(k)[1] = 0
    /\ orig = lookups[1].data[1]
    /\ orig # lookups[1].data[2]

====
